---- MODULE Spec2Model ----
(***************************************************************************)
(* Model of ObjectSchema (src/src/object-schema.js): the constructor with  *)
(* validateDefinition, hasKey(), validate() and merge().                   *)
(*                                                                         *)
(* JavaScript values are tagged records, objects are sequences of          *)
(* key/value entries in property insertion order, errors are records of    *)
(* the error's name and message, and every invocation of a user-supplied   *)
(* validate or merge function is appended to a call log.  The objects of a *)
(* merge() call are held by address, so that the object merge() writes to  *)
(* and returns can be told from the objects it was given.                  *)
(*                                                                         *)
(* Scope: property names are plain strings that are neither array indices  *)
(* nor names inherited from Object.prototype, so `key in object` is        *)
(* membership among the object's own properties and Object.keys() is the   *)
(* insertion order.                                                        *)
(***************************************************************************)
EXTENDS Integers, Sequences, FiniteSets, TLC

VARIABLES
    pc,            \* "new" | "failed" (no schema) | "ready" | "done" (a call has finished)
    strategies,    \* this[strategies]: Map key -> strategy, in insertion order
    requiredKeys,  \* this[requiredKeys]: keys of the required strategies, in insertion order
    call,          \* the public method invoked last and its arguments
    outcome,       \* what that invocation returned or threw
    log,           \* invocations of user-supplied functions during that call
    heapAfter,     \* the objects of that call, by address, as the call left them
    returned       \* the address of the object that call returned, or 0

vars == <<pc, strategies, requiredKeys, call, outcome, log, heapAfter, returned>>

----------------------------------------------------------------------------
(* Bounds *)

MaxArgs == 3       \* most arguments passed to one merge() call
MaxProps == 3      \* most properties held by the arguments of one call, in total

----------------------------------------------------------------------------
(* JavaScript values *)

Undefined == [t |-> "undefined", n |-> 0]
Null == [t |-> "null", n |-> 0]
NaN == [t |-> "NaN", n |-> 0]
Num(n) == [t |-> "number", n |-> n]
Bool(b) == [t |-> "boolean", n |-> IF b THEN 1 ELSE 0]

TypeOf(v) ==
    CASE v.t = "NaN" -> "number"
      [] v.t = "null" -> "object"
      [] OTHER -> v.t

\* ToNumber() of the values above
ToNumber(v) ==
    CASE v.t = "number" -> v
      [] v.t = "null" -> Num(0)
      [] OTHER -> NaN

\* a + b on undefined, null and numbers
Plus(a, b) ==
    IF ToNumber(a).t = "NaN" \/ ToNumber(b).t = "NaN"
    THEN NaN
    ELSE Num(ToNumber(a).n + ToNumber(b).n)

----------------------------------------------------------------------------
(* Objects: own enumerable properties in insertion order *)

EmptyObject == <<>>

Prop(k, v) == [key |-> k, value |-> v]

\* Object.keys(object)
ObjectKeys(object) == [i \in 1..Len(object) |-> object[i].key]

Range(s) == {s[i] : i \in 1..Len(s)}

\* key in object
In(key, object) == \E i \in 1..Len(object) : object[i].key = key

\* object[key]
Get(object, key) ==
    IF In(key, object)
    THEN (CHOOSE p \in Range(object) : p.key = key).value
    ELSE Undefined

\* mutant: a new property is put in front of the existing ones
SetInFront(object, key, value) ==
    IF In(key, object)
    THEN [i \in 1..Len(object) |->
            IF object[i].key = key THEN Prop(key, value) ELSE object[i]]
    ELSE <<Prop(key, value)>> \o object

\* object[key] = value
Set(object, key, value) ==
    IF In(key, object)
    THEN [i \in 1..Len(object) |->
            IF object[i].key = key THEN Prop(key, value) ELSE object[i]]
    ELSE Append(object, Prop(key, value))

----------------------------------------------------------------------------
(* Errors *)

NoError == [name |-> "", message |-> ""]
Error(message) == [name |-> "Error", message |-> message]
TypeError(message) == [name |-> "TypeError", message |-> message]

\* ex.message = `Key "${key}": ` + ex.message
Prefixed(key, ex) == [ex EXCEPT !.message = "Key \"" \o key \o "\": " \o ex.message]

\* array.join("\", \"")
RECURSIVE Join(_)
Join(list) ==
    IF Len(list) = 0 THEN ""
    ELSE IF Len(list) = 1 THEN list[1]
    ELSE list[1] \o "\", \"" \o Join(Tail(list))

----------------------------------------------------------------------------
(* User-supplied functions and the MergeStrategy presets *)

Returned(v) == [threw |-> FALSE, value |-> v, error |-> NoError]
Threw(ex) == [threw |-> TRUE, value |-> Undefined, error |-> ex]

Function(name) == [type |-> "function", name |-> name]
String(name) == [type |-> "string", name |-> name]
Missing == [type |-> "undefined", name |-> ""]

\* The presets a merge property may name: MergeStrategy.overwrite
MergeStrategyNames == {"overwrite"}
MergeStrategy(name) == Function("MergeStrategy." \o name)

\* Calling a merge function: value1 + value2, (first, second) => second,
\* () => undefined, () => { throw new Error("Boom!") }, and the preset
\* MergeStrategy.overwrite, which returns its second argument
CallMerge(fn, value1, value2) ==
    CASE fn.name = "add" -> Returned(Plus(value1, value2))
      [] fn.name = "second" -> Returned(value2)
      [] fn.name = "undefined" -> Returned(Undefined)
      [] fn.name = "boom" -> Threw(Error("Boom!"))
      [] fn.name = "MergeStrategy.overwrite" -> Returned(value2)

\* Calling a validate function: validate() {} and
\* if (typeof value !== "number") throw new Error(...)
CallValidate(fn, value) ==
    CASE fn.name = "noop" -> Returned(Undefined)
      [] fn.name = "number" ->
            IF TypeOf(value) # "number"
            THEN Threw(Error("Expected a number."))
            ELSE Returned(Undefined)

----------------------------------------------------------------------------
(* Construction *)

\* validateDefinition(name, strategy): the error thrown, or NoError
validateDefinition(name, strategy) ==
    IF strategy.merge.type = "string"
    THEN IF strategy.merge.name \notin MergeStrategyNames
         THEN TypeError("Definition for key \"" \o name \o "\" missing valid merge strategy.")
         ELSE NoError
    ELSE IF strategy.merge.type # "function"
    THEN TypeError("Definition for key \"" \o name \o "\" must have a merge property.")
    ELSE IF strategy.validate.type # "function"
    THEN TypeError("Definition for key \"" \o name \o "\" must have a validate() method.")
    ELSE NoError

\* normalize the merge method in case there's a string
Normalized(strategy) ==
    IF strategy.merge.type = "string"
    THEN [strategy EXCEPT !.merge = MergeStrategy(strategy.merge.name)]
    ELSE strategy

\* the loop "add in all strategies" from entry i on
RECURSIVE AddStrategies(_, _, _, _)
AddStrategies(entries, i, strats, reqKeys) ==
    IF i > Len(entries)
    THEN [error |-> NoError, strategies |-> strats, requiredKeys |-> reqKeys]
    ELSE LET key == entries[i].key
             ex == validateDefinition(key, entries[i].value)
             strategy == Normalized(entries[i].value)
         IN  IF ex # NoError
             THEN [error |-> ex, strategies |-> <<>>, requiredKeys |-> <<>>]
             ELSE AddStrategies(entries, i + 1,
                      Append(strats, Prop(key, strategy)),
                      IF strategy.required THEN Append(reqKeys, key) ELSE reqKeys)

\* mutant: only undefined counts as missing definitions
ConstructorAcceptingNull(definitions) ==
    IF definitions.type = "undefined"
    THEN [error |-> Error("Schema definitions missing."),
          strategies |-> <<>>, requiredKeys |-> <<>>]
    ELSE AddStrategies(definitions.entries, 1, <<>>, <<>>)

\* new ObjectSchema(definitions)
Constructor(definitions) ==
    IF definitions.type # "object"
    THEN [error |-> Error("Schema definitions missing."),
          strategies |-> <<>>, requiredKeys |-> <<>>]
    ELSE AddStrategies(definitions.entries, 1, <<>>, <<>>)

----------------------------------------------------------------------------
(* hasKey *)

\* mutant: the key is looked up among the required keys
hasKeyAmongRequired(strats, key) == In(key, strats) /\ Get(strats, key).required

\* this[strategies].has(key)
hasKey(strats, key) == In(key, strats)

----------------------------------------------------------------------------
(* validate *)

\* mutant: some() in place of every()
RequiresMetSome(strategy, object) ==
    \E i \in 1..Len(strategy.requires) : In(strategy.requires[i], object)

\* mutant: a required key must also hold a value other than undefined
RequiresMetDefined(strategy, object) ==
    \A i \in 1..Len(strategy.requires) :
        /\ In(strategy.requires[i], object)
        /\ Get(object, strategy.requires[i]) # Undefined

\* strategy.requires.every(otherKey => otherKey in object)
RequiresMet(strategy, object) ==
    \A i \in 1..Len(strategy.requires) : In(strategy.requires[i], object)

\* Calling strategy.validate, which may not be a function
InvokeValidate(strategy, value) ==
    IF strategy.validate.type = "function"
    THEN CallValidate(strategy.validate, value)
    ELSE Threw(TypeError("Cannot read property 'call' of undefined"))

ValidateEntry(key, value, res) ==
    [fn |-> "validate", key |-> key, value1 |-> value, value2 |-> Undefined,
     threw |-> res.threw, value |-> res.value]

\* mutant: of the required keys that are missing the last one is reported
RECURSIVE CheckRequiredLast(_, _, _, _)
CheckRequiredLast(reqKeys, object, i, calls) ==
    IF i > Len(reqKeys)
    THEN [threw |-> FALSE, error |-> NoError, log |-> calls]
    ELSE LET rest == CheckRequiredLast(reqKeys, object, i + 1, calls) IN
         IF rest.threw THEN rest
         ELSE IF ~In(reqKeys[i], object)
         THEN [threw |-> TRUE, log |-> calls,
               error |-> Error("Missing required key \"" \o reqKeys[i] \o "\".")]
         ELSE rest

\* "ensure required keys aren't missing" from required key i on
RECURSIVE CheckRequired(_, _, _, _)
CheckRequired(reqKeys, object, i, calls) ==
    IF i > Len(reqKeys)
    THEN [threw |-> FALSE, error |-> NoError, log |-> calls]
    ELSE IF ~In(reqKeys[i], object)
    THEN [threw |-> TRUE, log |-> calls,
          error |-> Error("Missing required key \"" \o reqKeys[i] \o "\".")]
    ELSE CheckRequired(reqKeys, object, i + 1, calls)

\* mutant: a key without a strategy is skipped
RECURSIVE CheckKeysIgnoringUnknown(_, _, _, _, _)
CheckKeysIgnoringUnknown(strats, reqKeys, object, i, calls) ==
    IF i > Len(object)
    THEN CheckRequired(reqKeys, object, 1, calls)
    ELSE LET key == ObjectKeys(object)[i] IN
         IF ~hasKey(strats, key)
         THEN CheckKeysIgnoringUnknown(strats, reqKeys, object, i + 1, calls)
         ELSE LET strategy == Get(strats, key) IN
              IF strategy.requiresIsArray /\ ~RequiresMet(strategy, object)
              THEN [threw |-> TRUE, log |-> calls,
                    error |-> Error("Key \"" \o key \o "\" requires keys \""
                                    \o Join(strategy.requires) \o "\".")]
              ELSE LET res == InvokeValidate(strategy, Get(object, key))
                       calls2 == IF strategy.validate.type = "function"
                                 THEN Append(calls, ValidateEntry(key, Get(object, key), res))
                                 ELSE calls
                   IN  IF res.threw
                       THEN [threw |-> TRUE, log |-> calls2,
                             error |-> Prefixed(key, res.error)]
                       ELSE CheckKeysIgnoringUnknown(strats, reqKeys, object, i + 1,
                                                     calls2)

\* mutant: the validate function is called before the requires check
RECURSIVE CheckKeysValidatingFirst(_, _, _, _, _)
CheckKeysValidatingFirst(strats, reqKeys, object, i, calls) ==
    IF i > Len(object)
    THEN CheckRequired(reqKeys, object, 1, calls)
    ELSE LET key == ObjectKeys(object)[i] IN
         IF ~hasKey(strats, key)
         THEN [threw |-> TRUE, log |-> calls,
               error |-> Error("Unexpected key \"" \o key \o "\" found.")]
         ELSE LET strategy == Get(strats, key)
                  res == InvokeValidate(strategy, Get(object, key))
                  calls2 == IF strategy.validate.type = "function"
                            THEN Append(calls, ValidateEntry(key, Get(object, key), res))
                            ELSE calls
              IN  IF res.threw
                  THEN [threw |-> TRUE, log |-> calls2,
                        error |-> Prefixed(key, res.error)]
                  ELSE IF strategy.requiresIsArray /\ ~RequiresMet(strategy, object)
                  THEN [threw |-> TRUE, log |-> calls2,
                        error |-> Error("Key \"" \o key \o "\" requires keys \""
                                        \o Join(strategy.requires) \o "\".")]
                  ELSE CheckKeysValidatingFirst(strats, reqKeys, object, i + 1, calls2)

\* "check existing keys first" from the object's i-th key on
RECURSIVE CheckKeys(_, _, _, _, _)
CheckKeys(strats, reqKeys, object, i, calls) ==
    IF i > Len(object)
    THEN CheckRequired(reqKeys, object, 1, calls)
    ELSE LET key == ObjectKeys(object)[i] IN
         IF ~hasKey(strats, key)
         THEN [threw |-> TRUE, log |-> calls,
               error |-> Error("Unexpected key \"" \o key \o "\" found.")]
         ELSE LET strategy == Get(strats, key) IN
              IF strategy.requiresIsArray /\ ~RequiresMet(strategy, object)
              THEN [threw |-> TRUE, log |-> calls,
                    error |-> Error("Key \"" \o key \o "\" requires keys \""
                                    \o Join(strategy.requires) \o "\".")]
              ELSE LET res == InvokeValidate(strategy, Get(object, key))
                       calls2 == IF strategy.validate.type = "function"
                                 THEN Append(calls, ValidateEntry(key, Get(object, key), res))
                                 ELSE calls
                   IN  IF res.threw
                       THEN [threw |-> TRUE, log |-> calls2,
                             error |-> Prefixed(key, res.error)]
                       ELSE CheckKeys(strats, reqKeys, object, i + 1, calls2)

\* mutant: the required keys are checked before the object's own keys
validateRequiredFirst(strats, reqKeys, object, calls) ==
    LET required == CheckRequired(reqKeys, object, 1, calls) IN
    IF required.threw THEN required ELSE CheckKeys(strats, reqKeys, object, 1, calls)

\* validate(object), having made the calls in `calls` before
validate(strats, reqKeys, object, calls) ==
    CheckKeys(strats, reqKeys, object, 1, calls)

----------------------------------------------------------------------------
(* merge *)

MergeEntry(key, value1, value2, res) ==
    [fn |-> "merge", key |-> key, value1 |-> value1, value2 |-> value2,
     threw |-> res.threw, value |-> res.value]

\* The objects of a merge() call live in a heap, a sequence of objects read
\* and written by address: the arguments are at the addresses
\* 1..Len(objects), in the order passed, and an object the call creates gets
\* the next address.

\* mutant: the value is stored without the test value !== undefined
RECURSIVE MergeKeysStoringUndefined(_, _, _, _, _, _)
MergeKeysStoringUndefined(strats, i, heap, result, object, calls) ==
    IF i > Len(strats)
    THEN [threw |-> FALSE, error |-> NoError, heap |-> heap, log |-> calls]
    ELSE LET key == strats[i].key
             strategy == strats[i].value
             value1 == Get(heap[result].props, key)
             value2 == Get(heap[object].props, key)
         IN  IF In(key, heap[result].props) \/ In(key, heap[object].props)
             THEN LET res == CallMerge(strategy.merge, value1, value2)
                      calls2 == Append(calls, MergeEntry(key, value1, value2, res))
                  IN  IF res.threw
                      THEN [threw |-> TRUE, error |-> Prefixed(key, res.error),
                            heap |-> heap, log |-> calls2]
                      ELSE MergeKeysStoringUndefined(strats, i + 1,
                               [heap EXCEPT ![result].props =
                                   Set(heap[result].props, key, res.value)],
                               result, object, calls2)
             ELSE MergeKeysStoringUndefined(strats, i + 1, heap, result, object, calls)

\* mutant: a key is merged only if the current object holds it
RECURSIVE MergeKeysOfObject(_, _, _, _, _, _)
MergeKeysOfObject(strats, i, heap, result, object, calls) ==
    IF i > Len(strats)
    THEN [threw |-> FALSE, error |-> NoError, heap |-> heap, log |-> calls]
    ELSE LET key == strats[i].key
             strategy == strats[i].value
             value1 == Get(heap[result].props, key)
             value2 == Get(heap[object].props, key)
         IN  IF In(key, heap[object].props)
             THEN LET res == CallMerge(strategy.merge, value1, value2)
                      calls2 == Append(calls, MergeEntry(key, value1, value2, res))
                  IN  IF res.threw
                      THEN [threw |-> TRUE, error |-> Prefixed(key, res.error),
                            heap |-> heap, log |-> calls2]
                      ELSE MergeKeysOfObject(strats, i + 1,
                               IF res.value # Undefined
                               THEN [heap EXCEPT ![result].props =
                                        Set(heap[result].props, key, res.value)]
                               ELSE heap,
                               result, object, calls2)
             ELSE MergeKeysOfObject(strats, i + 1, heap, result, object, calls)

\* mutant: the catch block does not throw the exception again
RECURSIVE MergeKeysSwallowing(_, _, _, _, _, _)
MergeKeysSwallowing(strats, i, heap, result, object, calls) ==
    IF i > Len(strats)
    THEN [threw |-> FALSE, error |-> NoError, heap |-> heap, log |-> calls]
    ELSE LET key == strats[i].key
             strategy == strats[i].value
             value1 == Get(heap[result].props, key)
             value2 == Get(heap[object].props, key)
         IN  IF In(key, heap[result].props) \/ In(key, heap[object].props)
             THEN LET res == CallMerge(strategy.merge, value1, value2)
                      calls2 == Append(calls, MergeEntry(key, value1, value2, res))
                  IN  MergeKeysSwallowing(strats, i + 1,
                          IF ~res.threw /\ res.value # Undefined
                          THEN [heap EXCEPT ![result].props =
                                   Set(heap[result].props, key, res.value)]
                          ELSE heap,
                          result, object, calls2)
             ELSE MergeKeysSwallowing(strats, i + 1, heap, result, object, calls)

\* for (const [key, strategy] of this[strategies]) { ... } from strategy i on,
\* result and object being the addresses of the accumulator and of the
\* current object
RECURSIVE MergeKeys(_, _, _, _, _, _)
MergeKeys(strats, i, heap, result, object, calls) ==
    IF i > Len(strats)
    THEN [threw |-> FALSE, error |-> NoError, heap |-> heap, log |-> calls]
    ELSE LET key == strats[i].key
             strategy == strats[i].value
             value1 == Get(heap[result].props, key)
             value2 == Get(heap[object].props, key)
         IN  IF In(key, heap[result].props) \/ In(key, heap[object].props)
             THEN LET res == CallMerge(strategy.merge, value1, value2)
                      calls2 == Append(calls, MergeEntry(key, value1, value2, res))
                  IN  IF res.threw
                      THEN [threw |-> TRUE, error |-> Prefixed(key, res.error),
                            heap |-> heap, log |-> calls2]
                      ELSE MergeKeys(strats, i + 1,
                               IF res.value # Undefined
                               THEN [heap EXCEPT ![result].props =
                                        Set(heap[result].props, key, res.value)]
                               ELSE heap,
                               result, object, calls2)
             ELSE MergeKeys(strats, i + 1, heap, result, object, calls)

\* mutant: an object is validated after its keys have been merged
RECURSIVE ReduceValidatingLate(_, _, _, _, _, _, _)
ReduceValidatingLate(strats, reqKeys, heap, objects, i, result, calls) ==
    IF i > Len(objects)
    THEN [threw |-> FALSE, error |-> NoError, value |-> result, heap |-> heap,
          log |-> calls]
    ELSE LET step == MergeKeys(strats, 1, heap, result, objects[i], calls) IN
         IF step.threw
         THEN [threw |-> TRUE, error |-> step.error, value |-> 0, heap |-> step.heap,
               log |-> step.log]
         ELSE LET valid == validate(strats, reqKeys, step.heap[objects[i]].props,
                                    step.log)
              IN  IF valid.threw
                  THEN [threw |-> TRUE, error |-> valid.error, value |-> 0,
                        heap |-> step.heap, log |-> valid.log]
                  ELSE ReduceValidatingLate(strats, reqKeys, step.heap, objects,
                                            i + 1, result, valid.log)

\* The callback of objects.reduce(), (result, object) => { ... return result },
\* applied from the i-th element of the array of addresses `objects` on, result
\* being the address of the accumulator; value is the address returned
RECURSIVE Reduce(_, _, _, _, _, _, _)
Reduce(strats, reqKeys, heap, objects, i, result, calls) ==
    IF i > Len(objects)
    THEN [threw |-> FALSE, error |-> NoError, value |-> result, heap |-> heap,
          log |-> calls]
    ELSE LET valid == validate(strats, reqKeys, heap[objects[i]].props, calls) IN
         IF valid.threw
         THEN [threw |-> TRUE, error |-> valid.error, value |-> 0, heap |-> heap,
               log |-> valid.log]
         ELSE LET step == MergeKeys(strats, 1, heap, result, objects[i], valid.log) IN
              IF step.threw
              THEN [threw |-> TRUE, error |-> step.error, value |-> 0,
                    heap |-> step.heap, log |-> step.log]
              ELSE Reduce(strats, reqKeys, step.heap, objects, i + 1, result,
                          step.log)

Object(props) == [type |-> "object", props |-> props]

\* the addresses of the arguments
Addresses(objects) == [i \in 1..Len(objects) |-> i]

\* mutant: the accumulator starts as a copy of the first object, and the
\* fold with the second
reduceFromCopyOfFirst(strats, reqKeys, objects) ==
    IF objects = <<>>
    THEN Reduce(strats, reqKeys, <<Object(EmptyObject)>>, <<>>, 1, 1, <<>>)
    ELSE Reduce(strats, reqKeys, Append(objects, objects[1]),
                Addresses(objects), 2, Len(objects) + 1, <<>>)

\* mutant: reduce() without an initial value, which starts with the first
\* object as the accumulator
reduceWithoutInitialValue(strats, reqKeys, objects) ==
    Reduce(strats, reqKeys, objects, Addresses(objects), 2, 1, <<>>)

\* objects.reduce((result, object) => { ... }, {}): the accumulator is a new
\* empty object
reduce(strats, reqKeys, objects) ==
    Reduce(strats, reqKeys, Append(objects, Object(EmptyObject)),
           Addresses(objects), 1, Len(objects) + 1, <<>>)

\* object == null || typeof object !== "object"
NotAnObject(arg) == arg.type # "object"

\* what merge() throws: no value is returned and no object is touched
MergeThrew(ex, objects) ==
    [threw |-> TRUE, error |-> ex, value |-> 0, heap |-> objects, log |-> <<>>]

\* mutant: the types of the arguments are checked before their number
mergeCheckingTypesFirst(strats, reqKeys, objects) ==
    IF \E i \in 1..Len(objects) : NotAnObject(objects[i])
    THEN MergeThrew(Error("All arguments must be objects."), objects)
    ELSE IF Len(objects) < 2
    THEN MergeThrew(Error("merge() requires at least two arguments."), objects)
    ELSE reduce(strats, reqKeys, objects)

\* merge(...objects): value is the address of the object returned, heap the
\* objects after the call
merge(strats, reqKeys, objects) ==
    IF Len(objects) < 2
    THEN MergeThrew(Error("merge() requires at least two arguments."), objects)
    ELSE IF \E i \in 1..Len(objects) : NotAnObject(objects[i])
    THEN MergeThrew(Error("All arguments must be objects."), objects)
    ELSE reduce(strats, reqKeys, objects)

----------------------------------------------------------------------------
(* Inputs *)

SchemaKeys == {"downloads", "date"}          \* keys a schema may define
PropertyNames == SchemaKeys \cup {"foo"}     \* keys an object may hold

\* property values: validate() and merge() never read the value of a key
\* that has no strategy
Values(key) ==
    CASE key = "downloads" -> {Num(25), Num(125)}
      [] key = "date" -> {Num(25), Undefined}
      [] OTHER -> {Num(25)}

Strategy(mergeProp, validateProp, required, requiresIsArray, requires) ==
    [merge |-> mergeProp, validate |-> validateProp, required |-> required,
     requiresIsArray |-> requiresIsArray, requires |-> requires]

OtherKey(key) == CHOOSE k \in SchemaKeys : k # key

\* Strategy definitions that validateDefinition accepts
GoodStrategies(key) ==
    { Strategy(Function("add"), Function("number"), TRUE, FALSE, <<>>),
      Strategy(Function("undefined"), Function("noop"), FALSE, FALSE, <<>>),
      Strategy(Function("second"), Function("noop"), FALSE, FALSE, <<>>),
      Strategy(Function("second"), Function("noop"), FALSE, TRUE, <<OtherKey(key)>>),
      Strategy(Function("add"), Function("number"), FALSE, TRUE, <<OtherKey(key), "foo">>),
      Strategy(Function("boom"), Function("noop"), FALSE, FALSE, <<>>),
      Strategy(String("overwrite"), Missing, FALSE, FALSE, <<>>) }

\* Strategy definitions that lack a merge or a validate function
BadStrategies ==
    { Strategy(Missing, Function("noop"), FALSE, FALSE, <<>>),
      Strategy(Function("add"), Missing, FALSE, FALSE, <<>>),
      Strategy(String("bogus"), Function("noop"), FALSE, FALSE, <<>>) }

Injective(s) == \A i, j \in 1..Len(s) : s[i] = s[j] => i = j

KeyLists(names, n) == {s \in [1..n -> names] : Injective(s)}

\* the orders in which a schema's keys are declared
DeclaredKeyLists == { <<>>, <<"downloads">>, <<"date">>, <<"downloads", "date">> }

AllStrategies == UNION { GoodStrategies(k) : k \in SchemaKeys } \cup BadStrategies

\* definitions objects declaring the given keys
DefinitionsFor(keys) ==
    { [i \in 1..Len(keys) |-> Prop(keys[i], f[i])] :
        f \in { g \in [1..Len(keys) -> AllStrategies] :
                  \A i \in 1..Len(keys) :
                      g[i] \in GoodStrategies(keys[i]) \cup BadStrategies } }

\* the definitions argument of the constructor
DefinitionsInputs ==
    { [type |-> "undefined", entries |-> <<>>], [type |-> "null", entries |-> <<>>] }
    \cup
    { [type |-> "object", entries |-> entries] :
        entries \in UNION { DefinitionsFor(keys) : keys \in DeclaredKeyLists } }

\* objects with exactly n properties
ObjectsOfSize(n) ==
    UNION { { [i \in 1..n |-> Prop(keys[i], vals[i])] :
                vals \in { w \in [1..n -> UNION { Values(k) : k \in PropertyNames }] :
                             \A i \in 1..n : w[i] \in Values(keys[i]) } } :
            keys \in KeyLists(PropertyNames, n) }

NullValue == [type |-> "null", props |-> <<>>]
NumberValue == [type |-> "number", props |-> <<>>]

\* an argument's size: its properties, or 1 for a value that is not an object
Size(arg) == IF arg.type = "object" THEN Len(arg.props) ELSE 1

ArgsUpTo(budget) ==
    { Object(props) : props \in UNION { ObjectsOfSize(n) : n \in 0..budget } }
    \cup (IF budget >= 1 THEN {NullValue, NumberValue} ELSE {})

\* argument lists of length n whose sizes add up to budget at most
RECURSIVE ArgLists(_, _)
ArgLists(n, budget) ==
    IF n = 0 THEN { <<>> }
    ELSE UNION { { <<arg>> \o rest : rest \in ArgLists(n - 1, budget - Size(arg)) } :
                 arg \in ArgsUpTo(budget) }

----------------------------------------------------------------------------
(* The state machine *)

\* a call of a public method: the constructor takes definitions, hasKey() a
\* key, validate() one object and merge() any number of arguments
Call(method, definitions, key, objects) ==
    [method |-> method, definitions |-> definitions, key |-> key, objects |-> objects]

NoDefinitions == [type |-> "none", entries |-> <<>>]
NoCall == Call("", NoDefinitions, "", <<>>)

\* what a call returned (a value, or for merge() an object) or threw
Outcome(threw, error, value, object) ==
    [threw |-> threw, error |-> error, value |-> value, object |-> object]

NoOutcome == Outcome(FALSE, NoError, Undefined, EmptyObject)

Init ==
    /\ pc = "new"
    /\ strategies = <<>>
    /\ requiredKeys = <<>>
    /\ call = NoCall
    /\ outcome = NoOutcome
    /\ log = <<>>
    /\ heapAfter = <<>>
    /\ returned = 0

\* new ObjectSchema(definitions)
Construct ==
    /\ pc = "new"
    /\ \E definitions \in DefinitionsInputs :
         LET made == Constructor(definitions) IN
         /\ call' = Call("constructor", definitions, "", <<>>)
         /\ outcome' = Outcome(made.error # NoError, made.error, Undefined, EmptyObject)
         /\ strategies' = made.strategies
         /\ requiredKeys' = made.requiredKeys
         /\ pc' = IF made.error # NoError THEN "failed" ELSE "done"
         /\ log' = <<>>
         /\ heapAfter' = <<>>
         /\ returned' = 0

\* schema.hasKey(key)
HasKey ==
    /\ pc = "ready"
    /\ \E key \in PropertyNames :
         /\ call' = Call("hasKey", NoDefinitions, key, <<>>)
         /\ outcome' = Outcome(FALSE, NoError, Bool(hasKey(strategies, key)), EmptyObject)
    /\ pc' = "done"
    /\ log' = <<>>
    /\ heapAfter' = <<>>
    /\ returned' = 0
    /\ UNCHANGED <<strategies, requiredKeys>>

\* schema.validate(object)
Validate ==
    /\ pc = "ready"
    /\ \E n \in 0..MaxProps : \E object \in ObjectsOfSize(n) :
         LET res == validate(strategies, requiredKeys, object, <<>>) IN
         /\ call' = Call("validate", NoDefinitions, "", <<Object(object)>>)
         /\ outcome' = Outcome(res.threw, res.error, Undefined, EmptyObject)
         /\ log' = res.log
         /\ heapAfter' = <<Object(object)>>
         /\ returned' = 0
    /\ pc' = "done"
    /\ UNCHANGED <<strategies, requiredKeys>>

\* schema.merge(...objects)
Merge ==
    /\ pc = "ready"
    /\ \E n \in 0..MaxArgs : \E objects \in ArgLists(n, MaxProps) :
         LET res == merge(strategies, requiredKeys, objects) IN
         /\ call' = Call("merge", NoDefinitions, "", objects)
         /\ outcome' = Outcome(res.threw, res.error, Undefined,
                               IF res.threw THEN EmptyObject
                               ELSE res.heap[res.value].props)
         /\ log' = res.log
         /\ heapAfter' = res.heap
         /\ returned' = res.value
    /\ pc' = "done"
    /\ UNCHANGED <<strategies, requiredKeys>>

\* the caller is done with the outcome; the schema is ready for the next call
Return ==
    /\ pc = "done"
    /\ pc' = "ready"
    /\ call' = NoCall
    /\ outcome' = NoOutcome
    /\ log' = <<>>
    /\ heapAfter' = <<>>
    /\ returned' = 0
    /\ UNCHANGED <<strategies, requiredKeys>>

Next == Construct \/ HasKey \/ Validate \/ Merge \/ Return

Spec == Init /\ [][Next]_vars

----------------------------------------------------------------------------
(* What the claims talk about *)

Finished(method) == pc = "done" /\ call.method = method

\* a schema exists
Constructed == pc \in {"ready", "done"}

\* the object passed to validate()
ValidatedObject == call.objects[1].props

StrategyOf(key) == Get(strategies, key)

\* the keys in schema declaration order
DeclaredKeys == ObjectKeys(strategies)

UnexpectedKey(key) == Error("Unexpected key \"" \o key \o "\" found.")
MissingRequiredKey(key) == Error("Missing required key \"" \o key \o "\".")
MissingDependency(key, list) ==
    Error("Key \"" \o key \o "\" requires keys \"" \o Join(list) \o "\".")

\* every key of the object has a strategy
AllKeysKnown(object) ==
    \A i \in 1..Len(object) : object[i].key \in Range(DeclaredKeys)

\* the keys that the strategy of a present key requires are present
DependenciesPresent(object) ==
    \A i \in 1..Len(object) :
        object[i].key \in Range(DeclaredKeys) =>
            LET strategy == StrategyOf(object[i].key) IN
            strategy.requiresIsArray =>
                Range(strategy.requires) \subseteq Range(ObjectKeys(object))

\* the validate function of every present key accepts the key's value
ValuesAccepted(object) ==
    \A i \in 1..Len(object) :
        object[i].key \in Range(DeclaredKeys) =>
            LET strategy == StrategyOf(object[i].key) IN
            /\ strategy.validate.type = "function"
            /\ ~CallValidate(strategy.validate, object[i].value).threw

\* every key declared with required: true is present
RequiredPresent(object) ==
    \A i \in 1..Len(strategies) :
        strategies[i].value.required =>
            strategies[i].key \in Range(ObjectKeys(object))

----------------------------------------------------------------------------
(* C1: validate(r) returns without throwing if and only if every key of r  *)
(* has a strategy, every key required by a present key is present, every   *)
(* present key's validate function accepts its value, and every key        *)
(* declared required is present.                                           *)
C1_ValidateSucceedsIff ==
    Finished("validate") =>
        (~outcome.threw <=>
            /\ AllKeysKnown(ValidatedObject)
            /\ DependenciesPresent(ValidatedObject)
            /\ ValuesAccepted(ValidatedObject)
            /\ RequiredPresent(ValidatedObject))

\* a record with a required key and a key that requires it passes
C1_Witness ==
    /\ Finished("validate")
    /\ ~outcome.threw
    /\ Len(ValidatedObject) = 2
    /\ Len(requiredKeys) = 1
    /\ \E i \in 1..Len(strategies) : strategies[i].value.requiresIsArray

----------------------------------------------------------------------------
(* merge(): what the claims talk about *)

\* the i-th argument of the merge() call, as an object
MergeArg(i) == call.objects[i].props

\* merge() was called with n arguments, all of them objects that pass validate()
MergedValid(n) ==
    /\ Finished("merge")
    /\ Len(call.objects) = n
    /\ \A i \in 1..n :
         /\ call.objects[i].type = "object"
         /\ ~validate(strategies, requiredKeys, MergeArg(i), <<>>).threw

\* the invocations of key's merge function during the call, in order
MergeCalls(key) ==
    SelectSeq(log, LAMBDA entry : entry.fn = "merge" /\ entry.key = key)

\* one invocation of a merge function, as the log records it
Invocation(key, value1, value2) ==
    MergeEntry(key, value1, value2,
               CallMerge(StrategyOf(key).merge, value1, value2))

----------------------------------------------------------------------------
(* C2: with the single required key downloads, merged by value1 + value2   *)
(* and validated to be a number, merge({downloads: 25}, {downloads: 125})  *)
(* returns {downloads: 150}; in general the merged value of a key held by  *)
(* two valid records is the key's merge function applied once to           *)
(* (r1[k], r2[k]).                                                         *)
C2_MergedValueIsOneApplication ==
    /\ ( /\ MergedValid(2)
         /\ strategies = << Prop("downloads",
                Strategy(Function("add"), Function("number"), TRUE, FALSE, <<>>)) >>
         /\ MergeArg(1) = << Prop("downloads", Num(25)) >>
         /\ MergeArg(2) = << Prop("downloads", Num(125)) >> )
       => ( ~outcome.threw /\ outcome.object = << Prop("downloads", Num(150)) >> )
    /\ ( MergedValid(2) /\ ~outcome.threw )
       => \A key \in Range(DeclaredKeys) :
            ( In(key, MergeArg(1)) /\ In(key, MergeArg(2)) ) =>
                LET applied == CallMerge(StrategyOf(key).merge,
                                         Get(MergeArg(1), key), Get(MergeArg(2), key))
                IN  /\ ~applied.threw
                    /\ Get(outcome.object, key) = applied.value

(* C3: merge(r1, r2, r3) on three valid records that all hold key k        *)
(* invokes k's merge function exactly twice: with (r1[k], r2[k]) and then  *)
(* with (that result, r3[k]).                                              *)
C3_FoldStartsWithFirstTwoRecords ==
    ( MergedValid(3) /\ ~outcome.threw ) =>
        \A key \in Range(DeclaredKeys) :
            ( \A i \in 1..3 : In(key, MergeArg(i)) ) =>
                LET first == Invocation(key, Get(MergeArg(1), key), Get(MergeArg(2), key))
                    second == Invocation(key, first.value, Get(MergeArg(3), key))
                IN  MergeCalls(key) = << first, second >>

(* C4: if the last invocation of a key's merge function in a merge call    *)
(* returned undefined, the key does not appear in the returned record,     *)
(* also when the accumulator held a value for the key before that step.    *)
C4_UndefinedRemovesKey ==
    ( Finished("merge") /\ ~outcome.threw ) =>
        \A key \in Range(DeclaredKeys) :
            LET calls == MergeCalls(key) IN
            ( Len(calls) > 0 /\ calls[Len(calls)].value = Undefined ) =>
                ~In(key, outcome.object)

----------------------------------------------------------------------------
\* the position of a key in the schema's declaration order
DeclaredAt(key) == CHOOSE i \in 1..Len(strategies) : strategies[i].key = key

\* the arguments at whose fold step a key absent from the accumulator is
\* stored: the argument holds the key and the key's merge function returns a
\* value other than undefined for (undefined, the argument's value)
StoringSteps(key) ==
    { i \in 1..Len(call.objects) :
        /\ In(key, MergeArg(i))
        /\ LET res == CallMerge(StrategyOf(key).merge, Undefined, Get(MergeArg(i), key))
           IN  ~res.threw /\ res.value # Undefined }

FirstStoredAt(key) ==
    CHOOSE i \in StoringSteps(key) : \A j \in StoringSteps(key) : i <= j

(* C5 as claimed: the keys of the record returned by merge appear in       *)
(* schema declaration order, whichever input record first supplies each    *)
(* key.                                                                    *)
C5_OutputInDeclarationOrder ==
    ( Finished("merge") /\ ~outcome.threw ) =>
        \A i, j \in 1..Len(outcome.object) :
            i < j => DeclaredAt(outcome.object[i].key) < DeclaredAt(outcome.object[j].key)

(* C5 as amended: the keys of the record returned by merge appear in the   *)
(* order in which the fold first stored them: by the position of the first *)
(* record from which the key was stored, and in schema declaration order   *)
(* among the keys first stored from the same record, whatever the key      *)
(* order inside the input records.                                         *)
C5_OutputInFirstStoredOrder ==
    ( Finished("merge") /\ ~outcome.threw ) =>
        /\ \A i \in 1..Len(outcome.object) :
             /\ outcome.object[i].key \in Range(DeclaredKeys)
             /\ StoringSteps(outcome.object[i].key) # {}
        /\ \A i, j \in 1..Len(outcome.object) :
             i < j =>
                LET ki == outcome.object[i].key
                    kj == outcome.object[j].key
                IN  \/ FirstStoredAt(ki) < FirstStoredAt(kj)
                    \/ /\ FirstStoredAt(ki) = FirstStoredAt(kj)
                       /\ DeclaredAt(ki) < DeclaredAt(kj)

\* both keys come from a first record that holds them in the reverse of the
\* declaration order
C5_Witness ==
    /\ Finished("merge")
    /\ ~outcome.threw
    /\ DeclaredKeys = <<"downloads", "date">>
    /\ ObjectKeys(MergeArg(1)) = <<"date", "downloads">>
    /\ ObjectKeys(outcome.object) = <<"downloads", "date">>

----------------------------------------------------------------------------
\* merge() was called with two or more arguments, all of them objects
MergedObjects ==
    /\ Finished("merge")
    /\ Len(call.objects) >= 2
    /\ \A i \in 1..Len(call.objects) : call.objects[i].type = "object"

\* what validate() does on the i-th argument, called on its own
Validation(i) == validate(strategies, requiredKeys, MergeArg(i), <<>>)

InvalidArgs == { i \in 1..Len(call.objects) : Validation(i).threw }

FirstInvalid == CHOOSE i \in InvalidArgs : \A j \in InvalidArgs : i <= j

(* C6 as claimed: if a record passed to merge fails validate, merge fails  *)
(* with exactly the failure validate raises for the first invalid record,  *)
(* and returns no record.                                                  *)
C6_FailsWithFirstValidateFailure ==
    ( MergedObjects /\ InvalidArgs # {} ) =>
        /\ outcome.threw
        /\ outcome.error = Validation(FirstInvalid).error
        /\ outcome.object = EmptyObject

(* C6 as amended: if a record passed to merge fails validate, merge fails  *)
(* and returns no record; the failure is the one validate raises for the   *)
(* first invalid record, unless a merge function throws while the records  *)
(* before it are folded, and then it is that function's failure, prefixed  *)
(* with the key.                                                           *)
C6_FailsWithFirstFailureOfFold ==
    ( MergedObjects /\ InvalidArgs # {} ) =>
        LET before == reduce(strategies, requiredKeys,
                             SubSeq(call.objects, 1, FirstInvalid - 1))
        IN  /\ outcome.threw
            /\ outcome.object = EmptyObject
            /\ ~before.threw => outcome.error = Validation(FirstInvalid).error
            /\ before.threw =>
                 /\ outcome.error = before.error
                 /\ \E entry \in Range(log) :
                      /\ entry.fn = "merge"
                      /\ entry.threw
                      /\ outcome.error = Prefixed(entry.key,
                            CallMerge(StrategyOf(entry.key).merge,
                                      entry.value1, entry.value2).error)

\* the second record is the invalid one, after the first has been folded
C6_Witness ==
    /\ MergedObjects
    /\ InvalidArgs = {2}
    /\ \E entry \in Range(log) : entry.fn = "merge"
    /\ outcome.threw
    /\ outcome.error = Validation(2).error

----------------------------------------------------------------------------
\* the constructor was called and has returned or thrown
ConstructorCalled == pc \in {"done", "failed"} /\ call.method = "constructor"

(* C7 as claimed: constructing a schema fails when the definitions are     *)
(* undefined, null or a mapping with no keys, so no schema has zero        *)
(* registered keys.                                                        *)
C7_EmptyDefinitionsRejected ==
    /\ ( /\ ConstructorCalled
         /\ \/ call.definitions.type \in {"undefined", "null"}
            \/ call.definitions.entries = <<>> )
       => ( outcome.threw /\ pc = "failed" )
    /\ Constructed => Len(strategies) > 0

(* C7 as amended: constructing a schema fails with "Schema definitions     *)
(* missing." when the definitions are undefined or null; a mapping with no *)
(* keys constructs a schema with zero registered keys.                     *)
C7_MissingDefinitionsRejected ==
    ConstructorCalled =>
        /\ call.definitions.type \in {"undefined", "null"} =>
             /\ outcome.threw
             /\ outcome.error = Error("Schema definitions missing.")
             /\ pc = "failed"
        /\ ( call.definitions.type = "object" /\ call.definitions.entries = <<>> ) =>
             /\ ~outcome.threw
             /\ pc = "done"
             /\ strategies = <<>>
             /\ requiredKeys = <<>>

\* new ObjectSchema(null) has thrown
C7_Witness ==
    /\ ConstructorCalled
    /\ call.definitions.type = "null"
    /\ outcome.threw

(* C8: in every constructed schema every registered strategy has a         *)
(* callable merge function and a callable validate function, whether its   *)
(* merge was given as a function or as the name of a preset.               *)
C8_StrategiesAreCallable ==
    Constructed =>
        \A i \in 1..Len(strategies) :
            /\ strategies[i].value.merge.type = "function"
            /\ strategies[i].value.validate.type = "function"

----------------------------------------------------------------------------
\* the failure of the checks that validate() makes for the object's i-th key
\* alone: unknown key, then missing dependency, then the validate function
KeyFailure(object, i) ==
    LET key == object[i].key IN
    IF key \notin Range(DeclaredKeys)
    THEN UnexpectedKey(key)
    ELSE LET strategy == StrategyOf(key) IN
         IF /\ strategy.requiresIsArray
            /\ ~(Range(strategy.requires) \subseteq Range(ObjectKeys(object)))
         THEN MissingDependency(key, strategy.requires)
         ELSE IF strategy.validate.type # "function"
         THEN Prefixed(key, TypeError("Cannot read property 'call' of undefined"))
         ELSE LET res == CallValidate(strategy.validate, object[i].value) IN
              IF res.threw THEN Prefixed(key, res.error) ELSE NoError

\* validate() gets as far as the object's i-th key
Reaches(object, i) == \A j \in 1..(i - 1) : KeyFailure(object, j) = NoError

UnknownKeys(object) == { i \in 1..Len(object) : object[i].key \notin Range(DeclaredKeys) }

\* a key declared required is missing from the object
LacksRequired(object) ==
    \E i \in 1..Len(strategies) :
        strategies[i].value.required /\ ~In(strategies[i].key, object)

(* C9 as claimed: validate on a record that contains an unknown key and    *)
(* lacks a required key fails with the unknown-key failure naming the      *)
(* unknown key, never with the missing-required-key failure.               *)
C9_UnknownKeyReported ==
    ( /\ Finished("validate")
      /\ UnknownKeys(ValidatedObject) # {}
      /\ LacksRequired(ValidatedObject) ) =>
        /\ outcome.threw
        /\ \E i \in UnknownKeys(ValidatedObject) :
             outcome.error = UnexpectedKey(ValidatedObject[i].key)

(* C9 as amended: validate on a record that contains an unknown key and    *)
(* lacks a required key never fails with the missing-required-key failure; *)
(* it fails with the unknown-key failure naming the record's first unknown *)
(* key, unless a known key before it fails its dependency check or its     *)
(* validate function, and then it fails with that key's failure.           *)
C9_UnknownKeyBeforeRequired ==
    ( /\ Finished("validate")
      /\ UnknownKeys(ValidatedObject) # {}
      /\ LacksRequired(ValidatedObject) ) =>
        LET object == ValidatedObject
            unknown == CHOOSE i \in UnknownKeys(object) :
                           \A j \in UnknownKeys(object) : i <= j
        IN  /\ outcome.threw
            /\ \A key \in PropertyNames : outcome.error # MissingRequiredKey(key)
            /\ Reaches(object, unknown) =>
                 outcome.error = UnexpectedKey(object[unknown].key)
            /\ ~Reaches(object, unknown) =>
                 \E i \in 1..(unknown - 1) :
                    /\ Reaches(object, i)
                    /\ KeyFailure(object, i) # NoError
                    /\ outcome.error = KeyFailure(object, i)

\* the unknown key is reported although a required key is missing and a
\* known key precedes the unknown one
C9_Witness ==
    /\ Finished("validate")
    /\ Len(ValidatedObject) = 2
    /\ UnknownKeys(ValidatedObject) = {2}
    /\ LacksRequired(ValidatedObject)
    /\ outcome.error = UnexpectedKey(ValidatedObject[2].key)

----------------------------------------------------------------------------
\* the invocations of key's validate function during the call
ValidateCalls(key) ==
    SelectSeq(log, LAMBDA entry : entry.fn = "validate" /\ entry.key = key)

\* the object's i-th key has a strategy that declares requires
HasDependencies(object, i) ==
    /\ object[i].key \in Range(DeclaredKeys)
    /\ StrategyOf(object[i].key).requiresIsArray

(* C10: when validate reaches a present key k whose strategy declares      *)
(* requires and a listed key is not present in the record, it fails with   *)
(* the missing-dependency failure naming k and the whole requires list in  *)
(* declared order, without invoking k's validate function; a listed key    *)
(* that is present satisfies the check whatever its value.                 *)
C10_MissingDependencyNamesWholeList ==
    Finished("validate") =>
        \A i \in 1..Len(ValidatedObject) :
            ( Reaches(ValidatedObject, i) /\ HasDependencies(ValidatedObject, i) ) =>
                LET object == ValidatedObject
                    key == object[i].key
                    strategy == StrategyOf(key)
                IN  IF \E d \in Range(strategy.requires) : d \notin Range(ObjectKeys(object))
                    THEN /\ outcome.threw
                         /\ outcome.error.name = "Error"
                         /\ outcome.error.message =
                              "Key \"" \o key \o "\" requires keys \""
                              \o Join(strategy.requires) \o "\"."
                         /\ ValidateCalls(key) = <<>>
                    ELSE /\ outcome.error # MissingDependency(key, strategy.requires)
                         /\ strategy.validate.type = "function" =>
                              Len(ValidateCalls(key)) = 1

\* a key requires two keys of which the record holds one: both are named
C10_Witness ==
    /\ Finished("validate")
    /\ In("downloads", ValidatedObject)
    /\ ~In("foo", ValidatedObject)
    /\ outcome.threw
    /\ outcome.error.message = "Key \"date\" requires keys \"downloads\", \"foo\"."

----------------------------------------------------------------------------
ArityFailure == Error("merge() requires at least two arguments.")
ArgumentTypeFailure == Error("All arguments must be objects.")

\* the arguments of the merge() call that are null or no objects
NonObjects == { i \in 1..Len(call.objects) : call.objects[i].type # "object" }

(* C11: merge called with fewer than two arguments fails with the arity    *)
(* failure, also when the single argument is not a record; called with two *)
(* or more arguments of which any is null or not a record it fails with    *)
(* the argument-type failure, also when another argument is an invalid     *)
(* record; in both cases no validate and no merge function was invoked.    *)
C11_BadArgumentListsRejectedFirst ==
    Finished("merge") =>
        /\ Len(call.objects) < 2 =>
             /\ outcome.threw
             /\ outcome.error = ArityFailure
             /\ log = <<>>
             /\ returned = 0
        /\ ( Len(call.objects) >= 2 /\ NonObjects # {} ) =>
             /\ outcome.threw
             /\ outcome.error = ArgumentTypeFailure
             /\ log = <<>>
             /\ returned = 0

\* a record with an unknown key comes first, null comes last
C11_Witness ==
    /\ Finished("merge")
    /\ Len(call.objects) = 3
    /\ call.objects[1].type = "object"
    /\ UnknownKeys(MergeArg(1)) # {}
    /\ call.objects[3].type = "null"
    /\ outcome.error = ArgumentTypeFailure
    /\ \E i \in 1..Len(strategies) : strategies[i].value.validate.type = "function"

----------------------------------------------------------------------------
(* C12: if a key's merge function throws during merge, merge fails with    *)
(* the thrown failure, its message prefixed with `Key "<key>": `, no user   *)
(* function is invoked after that invocation, for no later key and no      *)
(* later record, and no record is returned.                                *)
C12_MergeFunctionFailureAborts ==
    Finished("merge") =>
        \A i \in 1..Len(log) :
            ( log[i].fn = "merge" /\ log[i].threw ) =>
                LET thrown == CallMerge(StrategyOf(log[i].key).merge,
                                        log[i].value1, log[i].value2).error
                IN  /\ i = Len(log)
                    /\ outcome.threw
                    /\ outcome.error.name = thrown.name
                    /\ outcome.error.message =
                         "Key \"" \o log[i].key \o "\": " \o thrown.message
                    /\ returned = 0
                    /\ outcome.object = EmptyObject

\* the second key's merge function throws at the second of three records,
\* after the first key has been stored
C12_Witness ==
    /\ Finished("merge")
    /\ Len(call.objects) = 3
    /\ Len(log) > 0
    /\ log[Len(log)].fn = "merge"
    /\ log[Len(log)].threw
    /\ log[Len(log)].key = "date"
    /\ \E i \in 1..Len(log) :
         log[i].fn = "merge" /\ log[i].key = "downloads" /\ log[i].value # Undefined
    /\ In("downloads", MergeArg(3))
    /\ outcome.error.message = "Key \"date\": Boom!"

----------------------------------------------------------------------------
\* the addresses of the arguments of the call
ArgumentAddresses == 1..Len(call.objects)

(* C13: after a validate or merge call, successful or failing, every input *)
(* record has the same keys in the same order with the same values as      *)
(* before the call, and the record that merge returns is a new record,     *)
(* distinct from every input record.                                       *)
C13_InputRecordsUntouched ==
    ( Finished("validate") \/ Finished("merge") ) =>
        /\ Len(heapAfter) >= Len(call.objects)
        /\ \A a \in ArgumentAddresses : heapAfter[a] = call.objects[a]
        /\ ( Finished("merge") /\ ~outcome.threw ) =>
             /\ returned \in 1..Len(heapAfter)
             /\ returned \notin ArgumentAddresses
             /\ heapAfter[returned].props = outcome.object

\* merge has returned a record holding a value that no input record holds
\* for the key, and the first record holds another value for it
C13_Witness ==
    /\ Finished("merge")
    /\ ~outcome.threw
    /\ In("downloads", MergeArg(1))
    /\ In("downloads", outcome.object)
    /\ \A a \in ArgumentAddresses :
         Get(MergeArg(a), "downloads") # Get(outcome.object, "downloads")
    /\ heapAfter[1] = call.objects[1]

----------------------------------------------------------------------------
\* the registry is what the constructor made of the definitions: their keys
\* in their order, each bound to its strategy, a preset's name replaced by
\* the preset
RegistryAsConstructed ==
    ConstructorCalled /\ ~outcome.threw =>
        LET entries == call.definitions.entries IN
        /\ DeclaredKeys = ObjectKeys(entries)
        /\ \A i \in 1..Len(entries) :
             IF entries[i].value.merge.type = "string"
             THEN strategies[i].value =
                    [entries[i].value EXCEPT
                        !.merge = MergeStrategy(entries[i].value.merge.name)]
             ELSE strategies[i].value = entries[i].value

\* hasKey() has returned whether the key is registered
HasKeyAnswered ==
    Finished("hasKey") =>
        /\ ~outcome.threw
        /\ outcome.value = Bool(call.key \in Range(DeclaredKeys))

(* C14: the constructor registers exactly the keys of the definitions, in  *)
(* their order; no hasKey, validate or merge call, failing ones included,  *)
(* changes the registered keys, their order, the strategy of a key or the  *)
(* required keys; and hasKey never fails and answers true exactly for the  *)
(* registered keys.                                                        *)
C14_RegistryImmutable ==
    [][ /\ RegistryAsConstructed'
        /\ HasKeyAnswered'
        /\ pc # "new" => /\ strategies' = strategies
                         /\ requiredKeys' = requiredKeys ]_vars

\* hasKey has answered true on a schema of two keys, one of them required
C14_Witness ==
    /\ Finished("hasKey")
    /\ outcome.value = Bool(TRUE)
    /\ Len(strategies) = 2
    /\ Len(requiredKeys) = 1
    /\ call.key \notin Range(requiredKeys)

----------------------------------------------------------------------------
\* What folding the first n arguments leaves for one key, computed from that
\* key's values alone: whether the key has been stored and the value stored
\* last
RECURSIVE KeyFold(_, _)
KeyFold(key, n) ==
    IF n = 0
    THEN [present |-> FALSE, value |-> Undefined]
    ELSE LET acc == KeyFold(key, n - 1)
             object == MergeArg(n)
         IN  IF ~acc.present /\ ~In(key, object)
             THEN acc
             ELSE LET res == CallMerge(StrategyOf(key).merge, acc.value,
                                       Get(object, key))
                  IN  IF res.threw \/ res.value = Undefined
                      THEN acc
                      ELSE [present |-> TRUE, value |-> res.value]

\* every invocation of key's merge function during the call returned undefined
AlwaysReturnedUndefined(key) ==
    \A i \in 1..Len(log) :
        ( log[i].fn = "merge" /\ log[i].key = key ) =>
            ( ~log[i].threw /\ log[i].value = Undefined )

(* C15: when a key's merge function returns undefined on every invocation, *)
(* the record that merge returns for two or more valid records does not    *)
(* contain the key, whether or not the records hold equal values for it    *)
(* and however many records are folded, and every other key has the value  *)
(* that folding its own values gives; merge returns unless the merge       *)
(* function of another key throws.                                         *)
C15_AlwaysUndefinedOmitsKey ==
    \A key \in SchemaKeys :
        ( /\ MergedObjects
          /\ InvalidArgs = {}
          /\ key \in Range(DeclaredKeys)
          /\ AlwaysReturnedUndefined(key) ) =>
            /\ ~outcome.threw =>
                 /\ ~In(key, outcome.object)
                 /\ \A other \in Range(DeclaredKeys) \ {key} :
                      LET folded == KeyFold(other, Len(call.objects)) IN
                      /\ In(other, outcome.object) <=> folded.present
                      /\ Get(outcome.object, other) = folded.value
            /\ outcome.threw =>
                 /\ log[Len(log)].fn = "merge"
                 /\ log[Len(log)].threw
                 /\ log[Len(log)].key # key

\* both records hold the same value for the key, whose merge function
\* returned undefined twice, and the other key is in the result
C15_Witness ==
    /\ MergedObjects
    /\ InvalidArgs = {}
    /\ ~outcome.threw
    /\ "downloads" \in Range(DeclaredKeys)
    /\ StrategyOf("downloads").merge = Function("undefined")
    /\ Len(MergeCalls("downloads")) = 2
    /\ Get(MergeArg(1), "downloads") = Get(MergeArg(2), "downloads")
    /\ ~In("downloads", outcome.object)
    /\ In("date", outcome.object)

----------------------------------------------------------------------------
\* the invocations of merge functions in a call log, in order
MergeInvocations(calls) == SelectSeq(calls, LAMBDA entry : entry.fn = "merge")

(* C16 as claimed: if any record passed to merge is invalid, no            *)
(* user-supplied merge function is invoked at all during that merge call,  *)
(* also when the invalid record is the second or a later argument.         *)
C16_NoMergeFunctionInvoked ==
    ( MergedObjects /\ InvalidArgs # {} ) => MergeInvocations(log) = <<>>

(* C16 as amended: if any record passed to merge is invalid, merge returns *)
(* no record, and no merge function is invoked for the first invalid       *)
(* record or for any record after it; the merge functions are invoked for  *)
(* the records before the first invalid one exactly as in a fold of those  *)
(* records alone, so none is invoked when the first record is invalid.     *)
C16_NoMergeFunctionFromInvalidOn ==
    ( MergedObjects /\ InvalidArgs # {} ) =>
        LET before == reduce(strategies, requiredKeys,
                             SubSeq(call.objects, 1, FirstInvalid - 1))
        IN  /\ outcome.threw
            /\ returned = 0
            /\ MergeInvocations(log) = MergeInvocations(before.log)
            /\ Len(MergeInvocations(log)) <= (FirstInvalid - 1) * Len(strategies)
            /\ FirstInvalid = 1 => MergeInvocations(log) = <<>>

\* the third record is the invalid one; the merge function has been invoked
\* for the two records before it
C16_Witness ==
    /\ MergedObjects
    /\ InvalidArgs = {3}
    /\ Len(MergeInvocations(log)) = 2
    /\ outcome.threw
    /\ outcome.error = Validation(3).error

----------------------------------------------------------------------------
\* The invocations of merge functions that the fold makes from the j-th
\* declared key of the i-th argument on, if none of them throws: one for each
\* key that the accumulator or the argument holds, with the accumulator's
\* value and the argument's value for it
RECURSIVE ExpectedInvocations(_, _)
ExpectedInvocations(i, j) ==
    IF i > Len(call.objects) THEN <<>>
    ELSE IF j > Len(strategies) THEN ExpectedInvocations(i + 1, 1)
    ELSE LET key == DeclaredKeys[j]
             acc == KeyFold(key, i - 1)
         IN  IF acc.present \/ In(key, MergeArg(i))
             THEN <<Invocation(key, acc.value, Get(MergeArg(i), key))>>
                  \o ExpectedInvocations(i, j + 1)
             ELSE ExpectedInvocations(i, j + 1)

\* a sequence of invocations up to the first one that throws
RECURSIVE UpToThrow(_)
UpToThrow(calls) ==
    IF calls = <<>> THEN <<>>
    ELSE IF Head(calls).threw THEN <<Head(calls)>>
    ELSE <<Head(calls)>> \o UpToThrow(Tail(calls))

----------------------------------------------------------------------------
\* the keys of the object, by position, for which validate() finds a violation
FailingKeys(object) == { i \in 1..Len(object) : KeyFailure(object, i) # NoError }

FirstFailing(object) ==
    CHOOSE i \in FailingKeys(object) : \A j \in FailingKeys(object) : i <= j

\* the object's i-th key gets as far as its validate function
ValidateFunctionCalled(object, i) ==
    /\ object[i].key \in Range(DeclaredKeys)
    /\ LET strategy == StrategyOf(object[i].key) IN
       /\ strategy.requiresIsArray =>
            Range(strategy.requires) \subseteq Range(ObjectKeys(object))
       /\ strategy.validate.type = "function"

\* one invocation of the validate function of the object's i-th key
Validated(object, i) ==
    ValidateEntry(object[i].key, object[i].value,
                  CallValidate(StrategyOf(object[i].key).validate, object[i].value))

(* C18: validate reports the violation of the first key, in the record's   *)
(* own key order, that has any violation: for that key the unknown-key     *)
(* failure before the missing-dependency failure before the failure of the *)
(* key's validate function, whose message is kept and prefixed with        *)
(* `Key "<key>": `; a key's validate function is invoked at most once,     *)
(* with the record's value for the key, and none is invoked for a key      *)
(* after the failing one.                                                  *)
C18_FirstFailingKeyReported ==
    Finished("validate") =>
        LET object == ValidatedObject IN
        /\ \A key \in PropertyNames : Len(ValidateCalls(key)) <= 1
        /\ FailingKeys(object) = {} =>
             log = [i \in 1..Len(object) |-> Validated(object, i)]
        /\ FailingKeys(object) # {} =>
             LET first == FirstFailing(object)
                 key == object[first].key
             IN  /\ outcome.threw
                 /\ outcome.error = KeyFailure(object, first)
                 /\ key \notin Range(DeclaredKeys) =>
                      outcome.error = UnexpectedKey(key)
                 /\ ( /\ key \in Range(DeclaredKeys)
                      /\ ~ValidateFunctionCalled(object, first)
                      /\ StrategyOf(key).validate.type = "function" ) =>
                      outcome.error = MissingDependency(key, StrategyOf(key).requires)
                 /\ IF ValidateFunctionCalled(object, first)
                    THEN /\ log = [i \in 1..first |-> Validated(object, i)]
                         /\ outcome.error.message =
                              "Key \"" \o key \o "\": "
                              \o CallValidate(StrategyOf(key).validate,
                                              object[first].value).error.message
                    ELSE log = [i \in 1..(first - 1) |-> Validated(object, i)]

\* the second key lacks a dependency and holds a value its validate function
\* rejects: the missing dependency is reported, after one invocation, of the
\* first key's validate function
C18_Witness ==
    /\ Finished("validate")
    /\ Len(ValidatedObject) = 2
    /\ FailingKeys(ValidatedObject) = {2}
    /\ ValidatedObject[2].key \in Range(DeclaredKeys)
    /\ outcome.error =
         MissingDependency(ValidatedObject[2].key,
                           StrategyOf(ValidatedObject[2].key).requires)
    /\ CallValidate(StrategyOf(ValidatedObject[2].key).validate,
                    ValidatedObject[2].value).threw
    /\ Len(log) = 1

----------------------------------------------------------------------------
\* the declared keys whose strategy says required: true, in declaration order
DeclaredRequired ==
    SelectSeq(DeclaredKeys, LAMBDA key : StrategyOf(key).required)

\* the required keys, by position in the declaration order, that the object
\* lacks
MissingRequired(object) ==
    { i \in 1..Len(DeclaredRequired) : ~In(DeclaredRequired[i], object) }

----------------------------------------------------------------------------
\* the fold of the first j arguments of the call
FoldOfFirst(j) == reduce(strategies, requiredKeys, SubSeq(call.objects, 1, j))

\* the accumulator as that fold leaves it, also when it throws halfway
AccumulatorAfter(j) == FoldOfFirst(j).heap[j + 1].props

\* a sequence is the beginning of another
IsPrefix(s, t) == Len(s) <= Len(t) /\ s = SubSeq(t, 1, Len(s))

\* the values other than undefined that key's merge function returned
ReturnedFor(key, calls) ==
    { calls[i].value : i \in { n \in 1..Len(calls) :
                                 /\ calls[n].fn = "merge"
                                 /\ calls[n].key = key
                                 /\ ~calls[n].threw
                                 /\ calls[n].value # Undefined } }

\* the accumulator holds registered keys only, each once, with a value other
\* than undefined that the key's merge function returned
AccumulatorSound(acc, calls) ==
    /\ Injective(ObjectKeys(acc))
    /\ \A p \in 1..Len(acc) :
         /\ acc[p].key \in Range(DeclaredKeys)
         /\ acc[p].value # Undefined
         /\ acc[p].value \in ReturnedFor(acc[p].key, calls)
    /\ \A key \in Range(DeclaredKeys) :
         ReturnedFor(key, calls) = {} => ~In(key, acc)

(* C20: after every fold step of merge, at the point where merge fails,    *)
(* and in the returned record, the accumulator contains only keys          *)
(* registered in the schema and never the value undefined: every key in it *)
(* maps to a value other than undefined that the key's merge function      *)
(* returned, and a key whose merge function never returned such a value is *)
(* not in it.                                                              *)
C20_AccumulatorHoldsReturnedValues ==
    MergedObjects =>
        /\ \A j \in 0..Len(call.objects) :
             /\ IsPrefix(FoldOfFirst(j).log, log)
             /\ AccumulatorSound(AccumulatorAfter(j), FoldOfFirst(j).log)
        /\ AccumulatorSound(heapAfter[Len(call.objects) + 1].props, log)
        /\ ~outcome.threw =>
             /\ AccumulatorSound(outcome.object, log)
             /\ outcome.object = heapAfter[returned].props

\* the first record holds date, whose merge function returned undefined, so
\* that the returned record holds downloads alone
C20_Witness ==
    /\ MergedObjects
    /\ ~outcome.threw
    /\ DeclaredKeys = <<"downloads", "date">>
    /\ StrategyOf("date").merge = Function("second")
    /\ In("date", MergeArg(1))
    /\ MergeCalls("date") # <<>>
    /\ ObjectKeys(outcome.object) = <<"downloads">>

----------------------------------------------------------------------------
\* the keys that the requires list of a registered key names and that are
\* not registered themselves
UnregisteredDependencies(key) ==
    IF key \in Range(DeclaredKeys) /\ StrategyOf(key).requiresIsArray
    THEN Range(StrategyOf(key).requires) \ Range(DeclaredKeys)
    ELSE {}

\* the position of a key that the object holds
PositionOf(key, object) == CHOOSE i \in 1..Len(object) : object[i].key = key

\* validate(object) fails at or before the object's i-th key
FailsBy(object, i) ==
    /\ FailingKeys(object) # {}
    /\ FirstFailing(object) <= i

(* C21: if the requires list of a registered key k names a key d that is   *)
(* not registered, no record containing k passes validate: a record with k *)
(* but without d fails with the missing-dependency failure of k or with    *)
(* the failure of a key before k, and a record with k and d fails with the *)
(* unknown-key failure of d or with the failure of a key before d; and     *)
(* merge fails on every argument list that includes a record containing k. *)
C21_UnregisteredDependencyNeverValid ==
    /\ Finished("validate") =>
         LET object == ValidatedObject IN
         \A i \in 1..Len(object) :
            \A d \in UnregisteredDependencies(object[i].key) :
                /\ outcome.threw
                /\ outcome.error = KeyFailure(object, FirstFailing(object))
                /\ IF In(d, object)
                   THEN /\ FailsBy(object, PositionOf(d, object))
                        /\ FirstFailing(object) = PositionOf(d, object) =>
                             outcome.error = UnexpectedKey(d)
                   ELSE /\ FailsBy(object, i)
                        /\ FirstFailing(object) = i =>
                             outcome.error =
                                MissingDependency(object[i].key,
                                                  StrategyOf(object[i].key).requires)
    /\ ( /\ Finished("merge")
         /\ \E a \in 1..Len(call.objects) :
              /\ call.objects[a].type = "object"
              /\ \E i \in 1..Len(MergeArg(a)) :
                   UnregisteredDependencies(MergeArg(a)[i].key) # {} )
       => ( outcome.threw /\ returned = 0 )

\* date requires downloads and the unregistered foo; the record holds all
\* three with values that are accepted, and fails for the unknown key foo
C21_Witness ==
    /\ Finished("validate")
    /\ ObjectKeys(ValidatedObject) = <<"date", "downloads", "foo">>
    /\ UnregisteredDependencies("date") = {"foo"}
    /\ Len(log) = 2
    /\ outcome.threw
    /\ outcome.error = UnexpectedKey("foo")

====
